---- MODULE Spec2Model ----
(***************************************************************************)
(* pj-raycast: the favorites / recent-projects store of src/utils.ts, the  *)
(* open handlers, the sorting, filtering and formatting functions and the  *)
(* project loading of the three list views, as state machines.             *)
(*                                                                         *)
(* Every exported store function is async: it runs to its next `await` in  *)
(* one step of the single-threaded event loop, and other callers may run   *)
(* between two of its steps.  A caller's position is procs[c].pc.          *)
(*                                                                         *)
(* The persisted text under a LocalStorage key is one of                   *)
(*   missing  - the key was never written (getItem resolves undefined),    *)
(*   empty    - the empty string (falsy, like missing),                    *)
(*   corrupt  - text JSON.parse rejects,                                   *)
(*   json     - the text JSON.stringify made of an array (field val).      *)
(* A project path is an opaque identifier: the code only compares paths    *)
(* for equality, so paths are the numbers 1, 2, ...                        *)
(***************************************************************************)
EXTENDS Integers, Sequences, FiniteSets, TLC

\* ------------------------------------------------------------- bounds
\* paths of the general specification
NumPaths == 2
\* concurrent callers (handlers on the event loop) of the general specification
NumCallers == 2
\* Date.now() readings available to the general specification
MaxClock == 2
\* paths beyond the capacity of the recent list, in SpecCap
ExtraPaths == 1
\* calls of addToRecentProjects with a path used before, in SpecCap
MaxReAdds == 2
\* storage steps (a getItem, a setItem) that fail, in SpecCap
MaxFailures == 1

\* "Keep only last 10"
MaxRecent == 10

Paths == 1..NumPaths
Callers == 1..NumCallers
CapPaths == 1..(MaxRecent + ExtraPaths)
CapClock == MaxRecent + ExtraPaths + MaxReAdds

VARIABLES
  favStore,     \* text stored under STORAGE_KEYS.FAVORITES
  recentStore,  \* text stored under STORAGE_KEYS.RECENT_PROJECTS
  clock,        \* the next reading of Date.now()
  procs,        \* procs[c]: the call caller c is in, and where
  last,         \* how the call that finished last ended
  hist,         \* history of the run, for the specification at hand
  ui,           \* the React state of the list view on screen, and its loads
  calc          \* a pure function of the views: its argument and its result

vars == <<favStore, recentStore, clock, procs, last, hist, ui, calc>>

\* ------------------------------------------------------ sequence helpers
Min(a, b) == IF a < b THEN a ELSE b

Range(s) == {s[i] : i \in 1..Len(s)}

\* Array.prototype.indexOf: the first index (0-based) of x, or -1
indexOf(s, x) ==
  IF \E i \in 1..Len(s) : s[i] = x
  THEN (CHOOSE i \in 1..Len(s) : s[i] = x /\ \A j \in 1..(i - 1) : s[j] # x) - 1
  ELSE -1

\* Array.prototype.push
push(s, x) == Append(s, x)

\* (mutant) nothing is removed
splice1Kept(s, index) == s

\* Array.prototype.splice(index, 1), index 0-based
splice1(s, index) ==
  [i \in 1..(Len(s) - 1) |-> IF i <= index THEN s[i] ELSE s[i + 1]]

\* (mutant) the new entry goes to the end
unshiftAtEnd(s, x) == Append(s, x)

\* Array.prototype.unshift
unshift(s, x) == <<x>> \o s

\* Array.prototype.slice(0, n)
slice0(s, n) == SubSeq(s, 1, Min(n, Len(s)))

\* recent.filter((p) => p.path !== projectPath)
RECURSIVE filterPath(_, _)
filterPath(recent, projectPath) ==
  IF recent = <<>> THEN <<>>
  ELSE IF Head(recent).path # projectPath
       THEN <<Head(recent)>> \o filterPath(Tail(recent), projectPath)
       ELSE filterPath(Tail(recent), projectPath)

\* recent.map((r) => r.path)
pathsOf(recent) == [i \in 1..Len(recent) |-> recent[i].path]

\* --------------------------------------------------------- the substrate
Missing == [kind |-> "missing", val |-> <<>>]
EmptyText == [kind |-> "empty", val |-> <<>>]
Corrupt == [kind |-> "corrupt", val |-> <<>>]

\* JSON.stringify of an array
JSONstringify(v) == [kind |-> "json", val |-> v]

\* JSON.parse: throws on text that is no JSON
JSONparse(text) ==
  IF text.kind = "json" THEN [threw |-> FALSE, value |-> text.val]
  ELSE [threw |-> TRUE, value |-> <<>>]

\* LocalStorage.getItem: resolves with the stored text, or rejects
getItem(store, ok) ==
  IF ok THEN [threw |-> FALSE, value |-> store]
  ELSE [threw |-> TRUE, value |-> Missing]

\* the body of getFavorites and of getRecentProjects without its try/catch
readNoCatch(store, ok) ==
  LET stored == getItem(store, ok) IN
  IF stored.threw THEN [threw |-> TRUE, value |-> <<>>]
  ELSE IF stored.value.kind \in {"missing", "empty"}
       THEN [threw |-> FALSE, value |-> <<>>]
       ELSE JSONparse(stored.value)

\* (mutant) the failure is not caught
readUncaught(store, ok) == readNoCatch(store, ok)

\* try { ... } catch { return []; }
readOrEmpty(store, ok) ==
  LET r == readNoCatch(store, ok) IN
  IF r.threw THEN [threw |-> FALSE, value |-> <<>>] ELSE r

getFavorites(ok) == readOrEmpty(favStore, ok)

getRecentProjects(ok) == readOrEmpty(recentStore, ok)

\* the paths the stored favorites hold, as getFavorites reads them
Members(store) == Range(readOrEmpty(store, TRUE).value)

\* ------------------------------------------------- addToRecentProjects
\* (mutant) the existing entry is kept
removeExistingKept(recent, projectPath) == recent

\* "Remove if already exists"
removeExisting(recent, projectPath) == filterPath(recent, projectPath)

\* (mutant) one entry too many is kept
keepLastOffByOne(filtered) == slice0(filtered, MaxRecent + 1)

\* (mutant) the oldest entries are kept: slice(-10)
keepLastFromEnd(filtered) ==
  SubSeq(filtered, IF Len(filtered) > MaxRecent THEN Len(filtered) - MaxRecent + 1 ELSE 1,
         Len(filtered))

\* "Keep only last 10"
keepLast(filtered) == slice0(filtered, MaxRecent)

\* the array addToRecentProjects hands to setItem
trimmed(recent, projectPath, now) ==
  keepLast(unshift(removeExisting(recent, projectPath),
                   [path |-> projectPath, lastAccessed |-> now]))

\* ------------------------------------------------------------ processes
\* Toast titles
AddedToast == "Added to Favorites"
RemovedToast == "Removed from Favorites"
FavFailedToast == "Failed to update favorites"
OpenFailedToast == "Failed to open project"
FailureToasts == {FavFailedToast, OpenFailedToast}

\* a caller that is in no call.  Fields: op, the store function it is in;
\* view, the view whose open handler made the call ("none": a direct call);
\* buf, the array about to be persisted; adding, the branch toggleFavorite
\* took; now, its Date.now(); readOk / wrote / opened, how its getItem,
\* setItem and open() settled; toast, the toast it has shown; pre, the
\* favorites stored when it was called; again, whether it toggles the path
\* the call before it toggled.
IdleProc ==
  [op |-> "none", view |-> "none", pc |-> "idle", path |-> 0, buf |-> <<>>,
   adding |-> FALSE, now |-> 0, readOk |-> TRUE, wrote |-> FALSE,
   opened |-> FALSE, toast |-> "none", pre |-> {}, again |-> FALSE]

\* how a call ended: the fields of its process, what it returned (ret, and
\* value for an array), and whether its promise rejected (raised)
Result(p, ret, raised, value) ==
  [op |-> p.op, view |-> p.view, path |-> p.path, adding |-> p.adding,
   readOk |-> p.readOk, wrote |-> p.wrote, opened |-> p.opened,
   toast |-> p.toast, pre |-> p.pre, again |-> p.again,
   ret |-> ret, raised |-> raised, value |-> value]

NoResult == Result(IdleProc, "none", FALSE, <<>>)

Idle(c) == procs[c].pc = "idle"

\* the call of caller c, in its final state p, settles and c is free again
Finish(c, p, ret, raised, value) ==
  /\ last' = Result(p, ret, raised, value)
  /\ procs' = [procs EXCEPT ![c] = IdleProc]

\* showToast: the toast is on screen when the call resolves
shown(p, title) == [p EXCEPT !.toast = title]

\* ------------------------------------------- getFavorites, getRecentProjects
\* getFavorites() or getRecentProjects() is called directly: it awaits getItem
GetCall(c, op) ==
  /\ Idle(c)
  /\ procs' = [procs EXCEPT ![c] = [IdleProc EXCEPT !.op = op, !.pc = "getItem"]]
  /\ UNCHANGED <<favStore, recentStore, clock, last>>

\* getItem settles and getFavorites() returns its array
GetFavorites(c, ok) ==
  /\ procs[c].op = "getFavorites"
  /\ procs[c].pc = "getItem"
  /\ LET r == getFavorites(ok) IN
     Finish(c, [procs[c] EXCEPT !.readOk = ok], "array", r.threw, r.value)
  /\ UNCHANGED <<favStore, recentStore, clock>>

\* getItem settles and getRecentProjects() returns its array
GetRecentProjects(c, ok) ==
  /\ procs[c].op = "getRecentProjects"
  /\ procs[c].pc = "getItem"
  /\ LET r == getRecentProjects(ok) IN
     Finish(c, [procs[c] EXCEPT !.readOk = ok], "array", r.threw, r.value)
  /\ UNCHANGED <<favStore, recentStore, clock>>

\* --------------------------------------------------------- toggleFavorite
\* (mutant) the path is pushed whether it is there or not
toggledAlwaysPushed(favorites, projectPath) == push(favorites, projectPath)

\* favorites after the branch toggleFavorite takes on them
toggled(favorites, projectPath) ==
  LET index == indexOf(favorites, projectPath) IN
  IF index = -1 THEN push(favorites, projectPath)
  ELSE splice1(favorites, index)

\* toggleFavorite(projectPath) is called: it awaits getFavorites()
ToggleCall(c, projectPath) ==
  /\ Idle(c)
  /\ procs' = [procs EXCEPT ![c] =
       [IdleProc EXCEPT !.op = "toggleFavorite", !.pc = "getItem",
                        !.path = projectPath, !.pre = Members(favStore),
                        !.again = (last.op = "toggleFavorite"
                                   /\ last.path = projectPath)]]
  /\ UNCHANGED <<favStore, recentStore, clock, last>>

\* getFavorites() settles; indexOf, push or splice, and setItem is issued
ToggleRead(c, ok) ==
  /\ procs[c].op = "toggleFavorite"
  /\ procs[c].pc = "getItem"
  /\ LET favorites == getFavorites(ok).value IN
     procs' = [procs EXCEPT ![c].pc = "setItem",
                            ![c].readOk = ok,
                            ![c].adding = (indexOf(favorites, procs[c].path) = -1),
                            ![c].buf = toggled(favorites, procs[c].path)]
  /\ UNCHANGED <<favStore, recentStore, clock, last>>

\* setItem settles: the success toast is next, or the catch block's toast
ToggleWrite(c, ok) ==
  /\ procs[c].op = "toggleFavorite"
  /\ procs[c].pc = "setItem"
  /\ favStore' = IF ok THEN JSONstringify(procs[c].buf) ELSE favStore
  /\ procs' = [procs EXCEPT ![c].wrote = ok,
                            ![c].pc = IF ok THEN "showToast" ELSE "catch"]
  /\ UNCHANGED <<recentStore, clock, last>>

\* the success toast settles: return true / false, or on to the catch block
ToggleToast(c, ok) ==
  /\ procs[c].op = "toggleFavorite"
  /\ procs[c].pc = "showToast"
  /\ IF ok
     THEN Finish(c, shown(procs[c], IF procs[c].adding THEN AddedToast
                                    ELSE RemovedToast),
                 IF procs[c].adding THEN "true" ELSE "false", FALSE, <<>>)
     ELSE /\ procs' = [procs EXCEPT ![c].pc = "catch"]
          /\ UNCHANGED last
  /\ UNCHANGED <<favStore, recentStore, clock>>

\* the catch block's failure toast settles: return false, or the rejection
\* leaves toggleFavorite
ToggleCatch(c, ok) ==
  /\ procs[c].op = "toggleFavorite"
  /\ procs[c].pc = "catch"
  /\ IF ok
     THEN Finish(c, shown(procs[c], FavFailedToast), "false", FALSE, <<>>)
     ELSE Finish(c, procs[c], "none", TRUE, <<>>)
  /\ UNCHANGED <<favStore, recentStore, clock>>

\* ---------------------------------------------------- addToRecentProjects
\* addToRecentProjects(projectPath) is called: it awaits getRecentProjects()
AddCall(c, projectPath) ==
  /\ Idle(c)
  /\ procs' = [procs EXCEPT ![c] =
       [IdleProc EXCEPT !.op = "addToRecentProjects", !.pc = "getItem",
                        !.path = projectPath]]
  /\ UNCHANGED <<favStore, recentStore, clock, last>>

\* getRecentProjects() settles; filter, unshift with Date.now(), slice, and
\* setItem is issued
AddRead(c, ok) ==
  /\ procs[c].op = "addToRecentProjects"
  /\ procs[c].pc = "getItem"
  /\ procs' = [procs EXCEPT ![c].pc = "setItem",
                            ![c].now = clock,
                            ![c].readOk = ok,
                            ![c].buf = trimmed(getRecentProjects(ok).value,
                                               procs[c].path, clock)]
  /\ clock' = clock + 1
  /\ UNCHANGED <<favStore, recentStore, last>>

\* (mutant) the catch block rethrows
addCatchRethrows(c) == Finish(c, procs[c], "none", TRUE, <<>>)

\* catch (error) { console.error(...) }: the call returns, and with it the
\* open handler that awaited it, if any
addCatch(c) == Finish(c, procs[c], "undefined", FALSE, <<>>)

\* setItem settles: the list is persisted, or the failure is logged
AddWrite(c, ok) ==
  /\ procs[c].op = "addToRecentProjects"
  /\ procs[c].pc = "setItem"
  /\ recentStore' = IF ok THEN JSONstringify(procs[c].buf) ELSE recentStore
  /\ IF ok
     THEN Finish(c, [procs[c] EXCEPT !.wrote = TRUE], "undefined", FALSE, <<>>)
     ELSE addCatch(c)
  /\ UNCHANGED <<favStore, clock>>

\* ------------------------------------------------------ the open handlers
\* the views whose handler calls open() itself
Views == {"quick", "search", "list"}

\* the primary action is fired on a project: the handler awaits open()
OpenCall(c, view, projectPath) ==
  /\ Idle(c)
  /\ procs' = [procs EXCEPT ![c] =
       [IdleProc EXCEPT !.op = "open", !.pc = "open", !.view = view,
                        !.path = projectPath]]
  /\ UNCHANGED <<favStore, recentStore, clock, last>>

\* open() settles.  Quick Switch: addToRecentProjects, or the catch block's
\* toast.  Search: addToRecentProjects, or the rejection leaves the handler.
\* List Projects: done, or the rejection leaves the handler.
OpenSettles(c, ok) ==
  /\ procs[c].op = "open"
  /\ procs[c].pc = "open"
  /\ IF ok /\ procs[c].view \in {"quick", "search"}
     THEN /\ procs' = [procs EXCEPT ![c].op = "addToRecentProjects",
                                    ![c].pc = "getItem",
                                    ![c].opened = TRUE]
          /\ UNCHANGED last
     ELSE IF ok
     THEN Finish(c, [procs[c] EXCEPT !.opened = TRUE], "undefined", FALSE, <<>>)
     ELSE IF procs[c].view = "quick"
     THEN /\ procs' = [procs EXCEPT ![c].pc = "catch"]
          /\ UNCHANGED last
     ELSE Finish(c, procs[c], "none", TRUE, <<>>)
  /\ UNCHANGED <<favStore, recentStore, clock>>

\* Quick Switch's catch block: its failure toast settles
OpenCatch(c, ok) ==
  /\ procs[c].op = "open"
  /\ procs[c].pc = "catch"
  /\ IF ok
     THEN Finish(c, shown(procs[c], OpenFailedToast), "undefined", FALSE, <<>>)
     ELSE Finish(c, procs[c], "none", TRUE, <<>>)
  /\ UNCHANGED <<favStore, recentStore, clock>>

\* no view is on screen, and no function is being evaluated
NoView == [kind |-> "none"]
NoCalc == [fn |-> "none"]

\* ------------------------------------------------------------ SpecCap
\* Sequential calls of addToRecentProjects by one caller, from an empty
\* store.  The next path is one already used or the first unused one.
TheCaller == CHOOSE c \in Callers : \A d \in Callers : c <= d

InitCommon ==
  /\ clock = 1
  /\ procs = [c \in Callers |-> IdleProc]
  /\ last = NoResult
  /\ hist = [used |-> 0, re |-> 0, rfails |-> 0, wfails |-> 0, distinct |-> TRUE,
            twice |-> FALSE]
  /\ ui = NoView
  /\ calc = NoCalc

InitCap ==
  /\ favStore = Missing
  /\ recentStore = Missing
  /\ InitCommon

CapInputs ==
  {p \in CapPaths : p = hist.used + 1 \/ (p <= hist.used /\ hist.re < MaxReAdds)}

CapCall ==
  /\ clock <= CapClock
  /\ \E p \in CapInputs :
       /\ AddCall(TheCaller, p)
       /\ hist' = [hist EXCEPT !.re = IF p <= hist.used THEN @ + 1 ELSE @]
  /\ UNCHANGED <<ui, calc>>

\* a storage step may fail while failures are left
CapOutcomes ==
  {TRUE} \cup (IF hist.rfails + hist.wfails < MaxFailures THEN {FALSE} ELSE {})

CapRead ==
  /\ \E ok \in CapOutcomes :
       /\ AddRead(TheCaller, ok)
       /\ hist' = [hist EXCEPT !.rfails = IF ok THEN @ ELSE @ + 1]
  /\ UNCHANGED <<ui, calc>>

CapWrite ==
  /\ \E ok \in CapOutcomes :
       /\ AddWrite(TheCaller, ok)
       /\ hist' = [hist EXCEPT
                     !.used = IF procs[TheCaller].path > @
                              THEN procs[TheCaller].path ELSE @,
                     !.distinct = @ /\ procs[TheCaller].path > hist.used,
                     !.wfails = IF ok THEN @ ELSE @ + 1,
                     !.twice = /\ ok
                               /\ last.op = "addToRecentProjects"
                               /\ last.path = procs[TheCaller].path
                               /\ last.wrote]
  /\ UNCHANGED <<ui, calc>>

NextCap == CapCall \/ CapRead \/ CapWrite

SpecCap == InitCap /\ [][NextCap]_vars

\* ------------------------------------------------------------ SpecSeq
\* One caller runs the store functions and the open handlers one after
\* another.  The session
\* starts with whatever an earlier session, or a fault of the substrate,
\* left under the two keys.
InitStores == {Missing, EmptyText, Corrupt}

\* ... or the favorites of an earlier session
InitFavorites == InitStores \cup {JSONstringify(<<p>>) : p \in Paths}

Init ==
  /\ favStore \in InitFavorites
  /\ recentStore \in InitStores
  /\ InitCommon

\* a reading of Date.now() is left for one more addToRecentProjects
ClockLeft ==
  clock + Cardinality({c \in Callers :
                         /\ procs[c].pc \in {"open", "getItem"}
                         /\ procs[c].op \in {"open", "addToRecentProjects"}})
    <= MaxClock

\* a step of a store function called directly by caller c
StoreStep(c) ==
  \/ (\E p \in Paths : ToggleCall(c, p)) /\ UNCHANGED <<hist, ui, calc>>
  \/ (\E ok \in BOOLEAN : ToggleRead(c, ok)) /\ UNCHANGED <<hist, ui, calc>>
  \/ (\E ok \in BOOLEAN : ToggleWrite(c, ok)) /\ UNCHANGED <<hist, ui, calc>>
  \/ (\E ok \in BOOLEAN : ToggleToast(c, ok)) /\ UNCHANGED <<hist, ui, calc>>
  \/ (\E ok \in BOOLEAN : ToggleCatch(c, ok)) /\ UNCHANGED <<hist, ui, calc>>
  \/ (\E op \in {"getFavorites", "getRecentProjects"} : GetCall(c, op))
       /\ UNCHANGED <<hist, ui, calc>>
  \/ (\E ok \in BOOLEAN : GetFavorites(c, ok)) /\ UNCHANGED <<hist, ui, calc>>
  \/ (\E ok \in BOOLEAN : GetRecentProjects(c, ok)) /\ UNCHANGED <<hist, ui, calc>>
  \/ ClockLeft /\ (\E p \in Paths : AddCall(c, p)) /\ UNCHANGED <<hist, ui, calc>>
  \/ (\E ok \in BOOLEAN : AddRead(c, ok)) /\ UNCHANGED <<hist, ui, calc>>
  \/ (\E ok \in BOOLEAN : AddWrite(c, ok)) /\ UNCHANGED <<hist, ui, calc>>

\* a step of a view's open handler run by caller c
HandlerStep(c) ==
  \/ /\ \E v \in Views, p \in Paths :
          (v = "list" \/ ClockLeft) /\ OpenCall(c, v, p)
     /\ UNCHANGED <<hist, ui, calc>>
  \/ (\E ok \in BOOLEAN : OpenSettles(c, ok)) /\ UNCHANGED <<hist, ui, calc>>
  \/ (\E ok \in BOOLEAN : OpenCatch(c, ok)) /\ UNCHANGED <<hist, ui, calc>>

NextSeq == StoreStep(TheCaller) \/ HandlerStep(TheCaller)

SpecSeq == Init /\ [][NextSeq]_vars

\* --------------------------------------------------------------- Spec
\* The callers' handlers and store calls interleave at their awaits, from a
\* fresh install.
Next == \E c \in Callers : StoreStep(c) \/ HandlerStep(c)

Spec == InitCap /\ [][Next]_vars

\* ------------------------------------------------------------ SpecRace
\* Every caller calls toggleFavorite once, the calls interleaving at their
\* awaits, and once these are done every caller calls addToRecentProjects
\* once, in the same way.  The history keeps, per store function: arg, the
\* path each caller passed; raced, whether all callers had read the stored
\* list, each with another path, before any of them wrote; order, the
\* callers in the order their setItem succeeded; ok, whether the call
\* reported success (the success toast for toggleFavorite, a normal return
\* for addToRecentProjects).
RaceOps == {"toggleFavorite", "addToRecentProjects"}

InitRace ==
  /\ favStore \in InitFavorites
  /\ recentStore \in InitStores
  /\ clock = 1
  /\ procs = [c \in Callers |-> IdleProc]
  /\ last = NoResult
  /\ ui = NoView
  /\ calc = NoCalc
  /\ hist = [calls |-> [c \in Callers |-> 0],
             arg |-> [op \in RaceOps |-> [c \in Callers |-> 0]],
             raced |-> [op \in RaceOps |-> FALSE],
             order |-> [op \in RaceOps |-> <<>>],
             ok |-> [op \in RaceOps |-> [c \in Callers |-> FALSE]],
             fav0 |-> Members(favStore),
             recent0 |-> readOrEmpty(recentStore, TRUE).value]

\* after the step, every caller has read the stored list and holds the
\* array it is about to write, and no two callers were given the same path
Racing(op) ==
  /\ \A c \in Callers :
       /\ procs'[c].op = op
       /\ procs'[c].view = "none"
       /\ procs'[c].pc = "setItem"
       /\ procs'[c].readOk
  /\ \A c, d \in Callers : c # d => procs'[c].path # procs'[d].path

\* the step is the setItem of caller c resolving
WroteNow(c) ==
  /\ procs[c].pc = "setItem"
  /\ IF procs'[c].pc = "idle" THEN last'.wrote ELSE procs'[c].wrote

\* the history after a step of caller c past its call
Tracked(c) ==
  hist' = [hist EXCEPT
    !.raced = [op \in RaceOps |-> @[op] \/ Racing(op)],
    !.order = IF WroteNow(c)
              THEN [@ EXCEPT ![procs[c].op] = Append(@, c)] ELSE @,
    !.ok = IF procs'[c].pc = "idle"
           THEN [@ EXCEPT ![procs[c].op][c] =
                   /\ ~last'.raised
                   /\ \/ last'.toast \in {AddedToast, RemovedToast}
                      \/ last'.op = "addToRecentProjects" /\ last'.wrote]
           ELSE @]

RaceToggleCall(c) ==
  /\ hist.calls[c] = 0
  /\ \E p \in Paths :
       /\ ToggleCall(c, p)
       /\ hist' = [hist EXCEPT !.calls[c] = 1, !.arg["toggleFavorite"][c] = p]
  /\ UNCHANGED <<ui, calc>>

RaceAddCall(c) ==
  /\ hist.calls[c] = 1
  /\ \A d \in Callers : hist.calls[d] >= 1 /\ procs[d].op # "toggleFavorite"
  /\ \E p \in Paths :
       /\ AddCall(c, p)
       /\ hist' = [hist EXCEPT !.calls[c] = 2,
                               !.arg["addToRecentProjects"][c] = p]
  /\ UNCHANGED <<ui, calc>>

RaceStep(c) ==
  \/ RaceToggleCall(c)
  \/ (\E ok \in BOOLEAN : ToggleRead(c, ok)) /\ Tracked(c) /\ UNCHANGED <<ui, calc>>
  \/ (\E ok \in BOOLEAN : ToggleWrite(c, ok)) /\ Tracked(c) /\ UNCHANGED <<ui, calc>>
  \/ (\E ok \in BOOLEAN : ToggleToast(c, ok)) /\ Tracked(c) /\ UNCHANGED <<ui, calc>>
  \/ (\E ok \in BOOLEAN : ToggleCatch(c, ok)) /\ Tracked(c) /\ UNCHANGED <<ui, calc>>
  \/ RaceAddCall(c)
  \/ (\E ok \in BOOLEAN : AddRead(c, ok)) /\ Tracked(c) /\ UNCHANGED <<ui, calc>>
  \/ (\E ok \in BOOLEAN : AddWrite(c, ok)) /\ Tracked(c) /\ UNCHANGED <<ui, calc>>

NextRace == \E c \in Callers : RaceStep(c)

SpecRace == InitRace /\ [][NextRace]_vars

\* ------------------------------------------------ the views' pure functions
\* projects the discovery service finds, in SpecFn
NumProjects == 3
\* names the projects bear, in SpecFn
NumNames == 3
\* entries of the recent list, and of the favorites, handed to SpecFn
MaxListLen == 2
\* characters of a path, and of the home directory, in SpecFn
MaxPathLen == 5
MaxHomeLen == 3
\* whole days a modification time lies before now, and after it, in SpecFn
MaxDaysAgo == 740
MaxDaysAhead == 2

ProjectPaths == 1..NumProjects
Names == 1..NumNames

\* a project record of the discovery service, with the lastModified that
\* statSync adds in the Search view (0: statSync threw, the field is absent)
Project(p, n, m, t) == [path |-> p, name |-> n, marker |-> m, lastModified |-> t]

\* String.prototype.localeCompare: names are numbered in collation order
localeCompare(a, b) == IF a < b THEN -1 ELSE IF a > b THEN 1 ELSE 0

\* (mutant) the recent list is ignored
compareByName(a, b, recentPathList) == localeCompare(a.name, b.name)

\* the comparator of Quick Switch's sort
compare(a, b, recentPathList) ==
  LET aRecentIndex == indexOf(recentPathList, a.path)
      bRecentIndex == indexOf(recentPathList, b.path) IN
  IF aRecentIndex # -1 /\ bRecentIndex # -1 THEN aRecentIndex - bRecentIndex
  ELSE IF aRecentIndex # -1 THEN -1
  ELSE IF bRecentIndex # -1 THEN 1
  ELSE localeCompare(a.name, b.name)

\* Array.prototype.sort is stable: x goes behind what does not sort after it
RECURSIVE insertProject(_, _, _)
insertProject(sorted, x, recentPathList) ==
  IF sorted = <<>> THEN <<x>>
  ELSE IF compare(Head(sorted), x, recentPathList) <= 0
       THEN <<Head(sorted)>> \o insertProject(Tail(sorted), x, recentPathList)
       ELSE <<x>> \o sorted

\* [...discoveredProjects].sort((a, b) => ...)
RECURSIVE sortedProjects(_, _)
sortedProjects(discoveredProjects, recentPathList) ==
  IF discoveredProjects = <<>> THEN <<>>
  ELSE LET n == Len(discoveredProjects) IN
       insertProject(sortedProjects(SubSeq(discoveredProjects, 1, n - 1),
                                    recentPathList),
                     discoveredProjects[n], recentPathList)

\* the comparator of the Search view's sort: newest first, 0 when a
\* lastModified is absent
compareModified(a, b) ==
  IF a.lastModified = 0 \/ b.lastModified = 0 THEN 0
  ELSE b.lastModified - a.lastModified

RECURSIVE insertByModified(_, _)
insertByModified(sorted, x) ==
  IF sorted = <<>> THEN <<x>>
  ELSE IF compareModified(Head(sorted), x) <= 0
       THEN <<Head(sorted)>> \o insertByModified(Tail(sorted), x)
       ELSE <<x>> \o sorted

\* projectsWithStats.sort((a, b) => ...)
RECURSIVE sortByModified(_)
sortByModified(projectsWithStats) ==
  IF projectsWithStats = <<>> THEN <<>>
  ELSE LET n == Len(projectsWithStats) IN
       insertByModified(sortByModified(SubSeq(projectsWithStats, 1, n - 1)),
                        projectsWithStats[n])

\* the lookup table of formatProjectType
markerTypes ==
  (".git" :> "git") @@ ("package.json" :> "npm") @@ ("Cargo.toml" :> "cargo")
  @@ ("go.mod" :> "go") @@ ("pyproject.toml" :> "python")
  @@ ("Makefile" :> "make") @@ ("flake.nix" :> "nix")
  @@ ("composer.json" :> "php") @@ ("build.gradle" :> "gradle")
  @@ ("pom.xml" :> "maven") @@ ("Gemfile" :> "ruby") @@ ("mix.exs" :> "elixir")
  @@ ("deno.json" :> "deno") @@ ("pubspec.yaml" :> "dart")

\* markerTypes[marker] || marker
formatProjectType(marker) ==
  IF marker \in DOMAIN markerTypes THEN markerTypes[marker] ELSE marker

\* Array.prototype.includes
includes(s, x) == \E i \in 1..Len(s) : s[i] = x

\* projects.filter((p) => favorites.includes(p.path))
RECURSIVE filterFavorites(_, _)
filterFavorites(projects, favorites) ==
  IF projects = <<>> THEN <<>>
  ELSE IF includes(favorites, Head(projects).path)
       THEN <<Head(projects)>> \o filterFavorites(Tail(projects), favorites)
       ELSE filterFavorites(Tail(projects), favorites)

\* projects.filter((p) => formatProjectType(p.marker) === selectedType)
RECURSIVE filterType(_, _)
filterType(projects, selectedType) ==
  IF projects = <<>> THEN <<>>
  ELSE IF formatProjectType(Head(projects).marker) = selectedType
       THEN <<Head(projects)>> \o filterType(Tail(projects), selectedType)
       ELSE filterType(Tail(projects), selectedType)

\* (mutant) the favorites category filters nothing
filteredNothing(projects, selectedType, favorites) == projects

\* the useMemo of the Search view: the projects of the selected category
filteredProjects(projects, selectedType, favorites) ==
  IF selectedType = "all" THEN projects
  ELSE IF selectedType = "favorites" THEN filterFavorites(projects, favorites)
  ELSE filterType(projects, selectedType)

\* String.prototype.startsWith; a string is the sequence of its characters
startsWith(s, prefix) ==
  /\ Len(prefix) <= Len(s)
  /\ SubSeq(s, 1, Len(prefix)) = prefix

\* String.prototype.replace with a string pattern: its first occurrence
replace(s, pattern, by) ==
  LET occ == {i \in 1..(Len(s) - Len(pattern) + 1) :
                SubSeq(s, i, i + Len(pattern) - 1) = pattern} IN
  IF occ = {} THEN s
  ELSE LET i == CHOOSE i \in occ : \A j \in occ : i <= j IN
       SubSeq(s, 1, i - 1) \o by \o SubSeq(s, i + Len(pattern), Len(s))

\* formatDisplayPath, with home the value of homedir()
formatDisplayPath(path, home) ==
  IF startsWith(path, home) THEN replace(path, home, <<"~">>) ELSE path

\* 1000 * 60 * 60 * 24 milliseconds.  Times are counted in seconds here: the
\* checker's integers have 32 bits, a Date has 53, and the floor of a
\* division by a day does not depend on the milliseconds within a second
Day == 60 * 60 * 24

\* a label of formatDate: its text, and the number the text starts with
\* (0 for "Today" and "Yesterday", which have none)
Label(n, text) == [n |-> n, text |-> text]

\* formatDate of the Search view, with now the value of new Date();
\* Math.floor rounds down, as \div does
formatDate(date, now) ==
  LET diffMs == now - date
      diffDays == diffMs \div Day IN
  IF diffDays = 0 THEN Label(0, "Today")
  ELSE IF diffDays = 1 THEN Label(0, "Yesterday")
  ELSE IF diffDays < 7 THEN Label(diffDays, "days ago")
  ELSE IF diffDays < 30 THEN Label(diffDays \div 7, "weeks ago")
  ELSE IF diffDays < 365 THEN Label(diffDays \div 30, "months ago")
  ELSE Label(diffDays \div 365, "years ago")

\* -------------------------------------------------------------- SpecFn
\* One of the pure functions is applied to an argument drawn from its domain.
SeqsUpTo(S, n) == UNION {[1..k -> S] : k \in 0..n}

\* lists without a repeated element
Distinct(s) == \A i, j \in 1..Len(s) : i # j => s[i] # s[j]

\* what the discovery service may return: projects with unique paths
Discoveries(names, markers, times) ==
  {[i \in 1..Len(s) |-> Project(s[i], nm[s[i]], mk[s[i]], tm[s[i]])] :
     s \in {t \in SeqsUpTo(ProjectPaths, NumProjects) : Distinct(t)},
     nm \in [ProjectPaths -> names],
     mk \in [ProjectPaths -> markers],
     tm \in [ProjectPaths -> times]}

Chars == {"/", "a", "b"}

\* homedir(): an absolute path of one segment
Homes == {h \in SeqsUpTo(Chars, MaxHomeLen) :
            /\ Len(h) >= 2
            /\ h[1] = "/"
            /\ \A i \in 2..Len(h) : h[i] # "/"}

\* the instant of new Date(), and the modification times around it
Now == (MaxDaysAgo + 1) * Day
Dates == {Now - (d * Day + r) :
            d \in (0 - MaxDaysAhead)..MaxDaysAgo, r \in {0, 1, Day - 1}}

InitFn ==
  /\ favStore = Missing
  /\ recentStore = Missing
  /\ clock = 1
  /\ procs = [c \in Callers |-> IdleProc]
  /\ last = NoResult
  /\ hist = [fn |-> "none"]
  /\ ui = NoView
  /\ \/ \E d \in Discoveries(Names, {".git"}, {0}),
           r \in SeqsUpTo(ProjectPaths, MaxListLen) :
          calc = [fn |-> "sortedProjects", done |-> FALSE, out |-> <<>>,
                  arg |-> [discoveredProjects |-> d, recentPathList |-> r]]
     \/ \E d \in Discoveries({1}, {".git", "Justfile"}, {0}),
           f \in SeqsUpTo(ProjectPaths, MaxListLen),
           t \in {"all", "favorites", "git", "Justfile"} :
          calc = [fn |-> "filteredProjects", done |-> FALSE, out |-> <<>>,
                  arg |-> [projects |-> d, selectedType |-> t, favorites |-> f]]
     \/ \E p \in SeqsUpTo(Chars, MaxPathLen), h \in Homes :
          calc = [fn |-> "formatDisplayPath", done |-> FALSE, out |-> <<>>,
                  arg |-> [path |-> p, home |-> h]]
     \/ \E d \in Dates :
          calc = [fn |-> "formatDate", done |-> FALSE, out |-> Label(0, ""),
                  arg |-> [date |-> d, now |-> Now]]

Returns(fn, out) ==
  /\ calc.fn = fn
  /\ ~calc.done
  /\ calc' = [calc EXCEPT !.out = out, !.done = TRUE]
  /\ UNCHANGED <<favStore, recentStore, clock, procs, last, hist, ui>>

SortProjects ==
  Returns("sortedProjects",
          sortedProjects(calc.arg.discoveredProjects, calc.arg.recentPathList))

FilterProjects ==
  Returns("filteredProjects",
          filteredProjects(calc.arg.projects, calc.arg.selectedType,
                           calc.arg.favorites))

FormatDisplayPath ==
  Returns("formatDisplayPath", formatDisplayPath(calc.arg.path, calc.arg.home))

FormatDate ==
  Returns("formatDate", formatDate(calc.arg.date, calc.arg.now))

NextFn == SortProjects \/ FilterProjects \/ FormatDisplayPath \/ FormatDate

SpecFn == InitFn /\ [][NextFn]_vars

\* ------------------------------------------------------ the list views
\* calls of loadProjects (of useExec's command, in List Projects) in SpecView
MaxLoads == 3
\* favorite toggles fired from the Search view in SpecView
MaxToggles == 1
\* selections in the dropdown of the Search view in SpecView
MaxSelects == 1
\* awaited calls that reject in SpecView
MaxRejects == 2

LoadIds == 1..MaxLoads

LoadFailedToast == "Failed to load projects"
ExecFailedToast == "Failed to run pj"

\* a call of loadProjects that was not made yet.  Fields: pc, the await it
\* is at; recent, its recentPathList; found, what its discovery call
\* resolved with; failed, the call of it that rejected ("none": none did).
FreeLoad == [pc |-> "free", recent |-> <<>>, found |-> <<>>, failed |-> "none"]

\* a call of loadProjects that has returned
DoneLoad == [FreeLoad EXCEPT !.pc = "done"]

\* the state of a view when its component is first rendered: the useState
\* initial values (for List Projects: those of useExec)
FirstRender(kind) ==
  [kind |-> kind, projects |-> <<>>, isLoading |-> TRUE, recentPaths |-> <<>>,
   favorites |-> <<>>, selectedType |-> "all", error |-> FALSE,
   loads |-> [i \in LoadIds |-> FreeLoad]]

\* the calls that were made and have not returned
InFlight(u) == {i \in LoadIds : u.loads[i].pc \notin {"free", "done"}}

\* the list the view maps to items
Listed(u) ==
  IF u.kind = "search"
  THEN filteredProjects(u.projects, u.selectedType, u.favorites)
  ELSE u.projects

\* the condition under which List.EmptyView is rendered
EmptyView(u) == Listed(u) = <<>> /\ ~u.isLoading

\* the List.Item elements on screen; the actions hang on an item
Items(u) == IF EmptyView(u) THEN <<>> ELSE Listed(u)

\* (mutant) a generation counter: only the load requested last is taken
setProjectsOfLatest(i, value) == IF i = hist.started THEN value ELSE ui.projects

\* setProjects of load i: React takes the value of every call
setProjects(i, value) == value

\* the marker and the modification time of the directory at a path
MarkerOf(p) == IF p % 2 = 1 THEN ".git" ELSE "Justfile"
MTimeOf(p) == p

\* what discover() may resolve with: projects with unique paths, each
\* named after its path
DiscoverResults ==
  {[i \in 1..Len(s) |-> Project(s[i], s[i], MarkerOf(s[i]), 0)] :
     s \in {t \in SeqsUpTo(Paths, NumPaths) : Distinct(t)}}

\* discoveredProjects.map(...): statSync adds lastModified, unless it throws
projectsWithStats(discoveredProjects, throwing) ==
  [i \in 1..Len(discoveredProjects) |->
     IF discoveredProjects[i].path \in throwing THEN discoveredProjects[i]
     ELSE [discoveredProjects[i] EXCEPT
             !.lastModified = MTimeOf(discoveredProjects[i].path)]]

\* the Array.from(types).sort() of the Search view, as a set
projectTypes(projects) ==
  {formatProjectType(projects[i].marker) : i \in 1..Len(projects)}

\* parseOutput of useExec, then data?.projects || []
parseOutput(stdout) ==
  IF stdout.kind \in {"missing", "empty"} THEN <<>>
  ELSE LET parsed == JSONparse(stdout) IN
       IF parsed.threw THEN <<>> ELSE parsed.value

\* loadProjects() is called: setIsLoading(true), and it awaits
\* getBinaryPath().  In List Projects: useExec runs the command.
loadProjects(u, i) ==
  [u EXCEPT !.isLoading = TRUE,
            !.loads[i].pc = IF u.kind = "list" THEN "exec" ELSE "binary"]

\* History of SpecView: mounted, whether the mount effect ran; started, the
\* calls of loadProjects so far; toggles, selects, rejects, what was used of
\* the bounds; toasts, the failure toasts shown; arrived, the load whose
\* outcome was decided last, by its discovery call settling or by
\* getBinaryPath() rejecting, and the paths found (none if it failed);
\* lastSet, the load that called setProjects last and the value
\* it passed; newest, the same for the load requested latest among those
\* that called it; stale, whether lastSet passed another value than a load
\* requested after it had passed before; overlap, whether a load was
\* requested while another was in flight; unset, whether a load returned
\* without calling setProjects.
NoSet == [id |-> 0, projects |-> <<>>]

InitHistory ==
  [mounted |-> FALSE, started |-> 0, toggles |-> 0, selects |-> 0,
   rejects |-> 0, toasts |-> 0, arrived |-> [id |-> 0, paths |-> {}],
   lastSet |-> NoSet, newest |-> NoSet, stale |-> FALSE, overlap |-> FALSE,
   unset |-> FALSE]

\* an awaited call may reject while rejections are left
ViewOutcomes ==
  {TRUE} \cup (IF hist.rejects < MaxRejects THEN {FALSE} ELSE {})

Settled(h, ok) == [h EXCEPT !.rejects = IF ok THEN @ ELSE @ + 1]

\* load i has called setProjects(value)
HasSet(h, i, value) ==
  [h EXCEPT !.lastSet = [id |-> i, projects |-> value],
            !.stale = (h.newest.id > i /\ h.newest.projects # value),
            !.newest = IF i > @.id THEN [id |-> i, projects |-> value] ELSE @]

ViewUnchanged == UNCHANGED <<favStore, recentStore, clock, procs, last, calc>>

\* the effect "Load projects on mount" runs
Mount ==
  /\ ~hist.mounted
  /\ ui' = loadProjects(ui, 1)
  /\ hist' = [hist EXCEPT !.mounted = TRUE, !.started = 1]
  /\ ViewUnchanged

\* "Refresh Projects" is fired on an item.  useExec's revalidate is modelled
\* for a command that is not running only.
Refresh ==
  /\ hist.mounted
  /\ hist.started < MaxLoads
  /\ Items(ui) # <<>>
  /\ ui.kind = "list" => InFlight(ui) = {}
  /\ ui' = loadProjects(ui, hist.started + 1)
  /\ hist' = [hist EXCEPT !.started = @ + 1,
                          !.overlap = @ \/ InFlight(ui) # {}]
  /\ ViewUnchanged

\* the dropdown of the Search view: an item of it is selected
SelectType ==
  /\ ui.kind = "search"
  /\ hist.selects < MaxSelects
  /\ \E t \in {"all"} \cup (IF ui.favorites # <<>> THEN {"favorites"} ELSE {})
              \cup projectTypes(ui.projects) :
       /\ t # ui.selectedType
       /\ ui' = [ui EXCEPT !.selectedType = t]
  /\ hist' = [hist EXCEPT !.selects = @ + 1]
  /\ ViewUnchanged

\* getBinaryPath() settles
BinarySettles(i, ok) ==
  /\ ui.loads[i].pc = "binary"
  /\ ui' = [ui EXCEPT
       !.loads[i].pc = IF ~ok THEN "catch"
                       ELSE IF ui.kind = "quick" THEN "getItem" ELSE "discover",
       !.loads[i].failed = IF ok THEN @ ELSE "getBinaryPath"]
  /\ hist' = [Settled(hist, ok) EXCEPT
                !.arrived = IF ok THEN @ ELSE [id |-> i, paths |-> {}]]
  /\ ViewUnchanged

\* Quick Switch: getRecentProjects() settles, setRecentPaths
RecentSettles(i, ok) ==
  /\ ui.kind = "quick"
  /\ ui.loads[i].pc = "getItem"
  /\ LET recentPathList == pathsOf(getRecentProjects(ok).value) IN
     ui' = [ui EXCEPT !.recentPaths = recentPathList,
                      !.loads[i].recent = recentPathList,
                      !.loads[i].pc = "discover"]
  /\ hist' = Settled(hist, ok)
  /\ ViewUnchanged

\* load i calls setProjects(projects), and its finally block
\* setIsLoading(false)
Loaded(u, i, projects) ==
  [u EXCEPT !.projects = setProjects(i, projects),
            !.isLoading = FALSE,
            !.loads[i] = DoneLoad]

\* discover() settles.  Quick Switch sorts and is through; Search goes on to
\* getFavorites(); a rejection goes to the catch block and its toast.
DiscoverSettles(i, ok, discoveredProjects) ==
  /\ ui.loads[i].pc = "discover"
  /\ LET h == [Settled(hist, ok) EXCEPT
                 !.arrived = [id |-> i,
                              paths |-> IF ok THEN Range(pathsOf(discoveredProjects))
                                        ELSE {}]]
         sorted == sortedProjects(discoveredProjects, ui.loads[i].recent) IN
     IF ~ok
     THEN /\ ui' = [ui EXCEPT !.loads[i].pc = "catch",
                              !.loads[i].failed = "discover"]
          /\ hist' = h
     ELSE IF ui.kind = "quick"
     THEN /\ ui' = Loaded(ui, i, sorted)
          /\ hist' = HasSet(h, i, sorted)
     ELSE /\ ui' = [ui EXCEPT !.loads[i].pc = "getFavorites",
                              !.loads[i].found = discoveredProjects]
          /\ hist' = h
  /\ ViewUnchanged

\* Search: getFavorites() settles, setFavorites, the stats, the sort
FavoritesSettles(i, ok, throwing) ==
  /\ ui.loads[i].pc = "getFavorites"
  /\ LET sorted == sortByModified(projectsWithStats(ui.loads[i].found, throwing)) IN
     /\ ui' = Loaded([ui EXCEPT !.favorites = getFavorites(ok).value], i, sorted)
     /\ hist' = HasSet(Settled(hist, ok), i, sorted)
  /\ ViewUnchanged

\* the catch block: its showToast settles; setProjects([]) if it resolved;
\* the finally block
CatchSettles(i, ok) ==
  /\ ui.loads[i].pc = "catch"
  /\ IF ok
     THEN /\ ui' = Loaded(ui, i, <<>>)
          /\ hist' = [HasSet(hist, i, <<>>) EXCEPT !.toasts = @ + 1]
     ELSE /\ ui' = [ui EXCEPT !.isLoading = FALSE, !.loads[i] = DoneLoad]
          /\ hist' = [Settled(hist, ok) EXCEPT !.unset = TRUE]
  /\ ViewUnchanged

\* List Projects: the command of useExec ends.  With an error the toast is
\* fired and not awaited; whether useExec keeps the data of an earlier run
\* is not in this code, so both are possible.
ExecSettles(i, ok, stdout, keeps) ==
  /\ ui.loads[i].pc = "exec"
  /\ IF ok
     THEN /\ ui' = [Loaded(ui, i, parseOutput(stdout)) EXCEPT !.error = FALSE]
          /\ hist' = HasSet(hist, i, parseOutput(stdout))
     ELSE /\ ui' = [ui EXCEPT !.isLoading = FALSE, !.error = TRUE,
                              !.projects = IF keeps THEN @ ELSE <<>>,
                              !.loads[i] = DoneLoad]
          /\ hist' = [Settled(hist, ok) EXCEPT !.toasts = @ + 1]
  /\ ViewUnchanged

\* Search: "Add to Favorites" / "Remove from Favorites" is fired on an item:
\* onToggleFavorite awaits toggleFavorite(project.path)
ViewToggleCall(c) ==
  /\ ui.kind = "search"
  /\ hist.toggles < MaxToggles
  /\ hist.started < MaxLoads
  /\ \E k \in 1..Len(Items(ui)) : ToggleCall(c, Items(ui)[k].path)
  /\ hist' = [hist EXCEPT !.toggles = @ + 1]
  /\ UNCHANGED <<ui, calc>>

\* ... and when that has returned, it awaits loadProjects()
ThenLoads(c, ok) ==
  /\ IF procs'[c].pc = "idle" /\ ~last'.raised
     THEN /\ ui' = loadProjects(ui, hist.started + 1)
          /\ hist' = [Settled(hist, ok) EXCEPT
                        !.started = @ + 1,
                        !.overlap = @ \/ InFlight(ui) # {}]
     ELSE /\ ui' = ui
          /\ hist' = Settled(hist, ok)
  /\ UNCHANGED calc

\* ------------------------------------------------------------ SpecView
\* One of the three views is on screen.  Its loads, the refreshes and the
\* favorite toggle fired on its items interleave at their awaits.
ViewStores ==
  {Missing} \cup {JSONstringify(<<p>>) : p \in {NumPaths}}

ViewRecents ==
  {Missing} \cup {JSONstringify(<<[path |-> p, lastAccessed |-> 0]>>) : p \in {NumPaths}}

\* the paths statSync throws for: none, or all (the directories are gone)
StatThrows == {{}, Paths}

InitView ==
  /\ favStore \in ViewStores
  /\ recentStore \in ViewRecents
  /\ clock = 1
  /\ procs = [c \in Callers |-> IdleProc]
  /\ last = NoResult
  /\ calc = NoCalc
  /\ ui \in {FirstRender(kind) : kind \in Views}
  /\ hist = InitHistory

NextView ==
  \/ Mount
  \/ Refresh
  \/ SelectType
  \/ \E i \in LoadIds, ok \in ViewOutcomes : BinarySettles(i, ok)
  \/ \E i \in LoadIds, ok \in ViewOutcomes : RecentSettles(i, ok)
  \/ \E i \in LoadIds, ok \in ViewOutcomes, d \in DiscoverResults :
       DiscoverSettles(i, ok, d)
  \/ \E i \in LoadIds, ok \in ViewOutcomes, throwing \in StatThrows :
       FavoritesSettles(i, ok, throwing)
  \/ \E i \in LoadIds, ok \in ViewOutcomes : CatchSettles(i, ok)
  \/ \E i \in LoadIds, ok \in ViewOutcomes, keeps \in BOOLEAN,
        stdout \in {EmptyText, Corrupt} \cup {JSONstringify(d) : d \in DiscoverResults} :
       ExecSettles(i, ok, stdout, keeps)
  \/ ViewToggleCall(TheCaller)
  \/ \E ok \in ViewOutcomes : ToggleRead(TheCaller, ok) /\ ThenLoads(TheCaller, ok)
  \/ \E ok \in ViewOutcomes : ToggleWrite(TheCaller, ok) /\ ThenLoads(TheCaller, ok)
  \/ \E ok \in ViewOutcomes : ToggleToast(TheCaller, ok) /\ ThenLoads(TheCaller, ok)
  \/ \E ok \in ViewOutcomes : ToggleCatch(TheCaller, ok) /\ ThenLoads(TheCaller, ok)

SpecView == InitView /\ [][NextView]_vars

\* ---------------------------------------------------------- SpecQuick
\* The Quick Switch view with its primary action: loads and refreshes as in
\* SpecView, and the open handler of an item, whose addToRecentProjects
\* rewrites the stored recent list between two loads or during one.
\* primary actions fired
MaxOpens == 2

\* the history of SpecView, and opens, the primary actions fired so far
InitQuickHistory == [opens |-> 0] @@ InitHistory

InitQuick ==
  /\ favStore = Missing
  /\ recentStore \in ViewRecents
  /\ clock = 1
  /\ procs = [c \in Callers |-> IdleProc]
  /\ last = NoResult
  /\ calc = NoCalc
  /\ ui = FirstRender("quick")
  /\ hist = InitQuickHistory

\* the primary action is fired on an item: openProject(project)
QuickOpenCall(c) ==
  /\ hist.opens < MaxOpens
  /\ \E k \in 1..Len(Items(ui)) : OpenCall(c, "quick", Items(ui)[k].path)
  /\ hist' = [hist EXCEPT !.opens = @ + 1]
  /\ UNCHANGED <<ui, calc>>

\* an await of openProject settles: nothing of the view's state is set
HandlerSettles(ok) ==
  /\ hist' = Settled(hist, ok)
  /\ UNCHANGED <<ui, calc>>

NextQuick ==
  \/ Mount
  \/ Refresh
  \/ \E i \in LoadIds, ok \in ViewOutcomes : BinarySettles(i, ok)
  \/ \E i \in LoadIds, ok \in ViewOutcomes : RecentSettles(i, ok)
  \/ \E i \in LoadIds, ok \in ViewOutcomes, d \in DiscoverResults :
       DiscoverSettles(i, ok, d)
  \/ \E i \in LoadIds, ok \in ViewOutcomes : CatchSettles(i, ok)
  \/ QuickOpenCall(TheCaller)
  \/ \E ok \in ViewOutcomes : OpenSettles(TheCaller, ok) /\ HandlerSettles(ok)
  \/ \E ok \in ViewOutcomes : OpenCatch(TheCaller, ok) /\ HandlerSettles(ok)
  \/ \E ok \in ViewOutcomes : AddRead(TheCaller, ok) /\ HandlerSettles(ok)
  \/ \E ok \in ViewOutcomes : AddWrite(TheCaller, ok) /\ HandlerSettles(ok)

SpecQuick == InitQuick /\ [][NextQuick]_vars

\* --------------------------------------------------------------- claims
StoredRecent == recentStore.val

\* C1: the stored recent list never holds more than 10 entries, whatever the
\* paths and whether the writes succeed or fail.
C1_AtMostTen == Len(StoredRecent) <= MaxRecent

\* the list is full and a path beyond the tenth was just added to it
C1_Witness ==
  /\ Idle(TheCaller)
  /\ Len(StoredRecent) = MaxRecent
  /\ last.wrote
  /\ last.path > MaxRecent
  /\ StoredRecent[1].path = last.path

\* C2: the stored recent list holds at most one entry per path.
C2_OnePerPath ==
  \A i, j \in 1..Len(StoredRecent) :
    i # j => StoredRecent[i].path # StoredRecent[j].path

\* a path that was in the list was added again and is now at the front
C2_Witness ==
  /\ Idle(TheCaller)
  /\ last.wrote
  /\ Len(StoredRecent) >= 3
  /\ Len(StoredRecent) < MaxRecent
  /\ hist.rfails + hist.wfails = 0
  /\ StoredRecent[1].path = last.path
  /\ StoredRecent[1].path < StoredRecent[2].path

\* the step in which the second of two successive addToRecentProjects(p)
\* persists its list, the first one having persisted its own
SecondAddPersists ==
  /\ procs[TheCaller].op = "addToRecentProjects"
  /\ procs[TheCaller].pc = "setItem"
  /\ procs'[TheCaller].pc = "idle"
  /\ last'.wrote
  /\ last.op = "addToRecentProjects"
  /\ last.path = procs[TheCaller].path
  /\ last.wrote

\* one entry for p, at the front, with the second call's timestamp, and every
\* other entry where the first call left it
OnlyFrontRefreshed ==
  LET before == recentStore.val
      after == recentStore'.val
      p == procs[TheCaller].path
  IN /\ Cardinality({i \in 1..Len(after) : after[i].path = p}) = 1
     /\ after[1].path = p
     /\ after[1].lastAccessed = procs[TheCaller].now
     /\ after[1].lastAccessed > before[1].lastAccessed
     /\ Len(after) = Len(before)
     /\ \A i \in 2..Len(before) : after[i] = before[i]

LatestFirst(n) == [i \in 1..Min(n, MaxRecent) |-> n - i + 1]

Finishes(c) == procs[c].pc # "idle" /\ procs'[c].pc = "idle"

SuccessToasts == {AddedToast, RemovedToast}

\* the step in which the second of two successive toggleFavorite(p) returns,
\* each of the two having persisted its array and shown its success toast
SecondToggleReturns ==
  /\ procs[TheCaller].op = "toggleFavorite"
  /\ Finishes(TheCaller)
  /\ procs[TheCaller].again
  /\ last.toast \in SuccessToasts
  /\ last'.toast \in SuccessToasts

\* every path is a favorite as it was before the first toggle; an absent
\* path gave true, then false
BackToOriginal ==
  /\ Members(favStore') = last.pre
  /\ procs[TheCaller].path \notin last.pre =>
       last.ret = "true" /\ last'.ret = "false"

C6_AsStated ==
  [][(/\ procs[TheCaller].op = "toggleFavorite"
      /\ Finishes(TheCaller)
      /\ ~last'.raised)
       => (last'.ret = "true" <=> last'.path \in Members(favStore'))]_vars

\* C7 as stated: when the write of toggleFavorite fails, the stored favorites
\* stay as they are, and the call shows the failure toast, returns false and
\* does not reject.
C7_AsStated ==
  [][/\ (/\ procs[TheCaller].op = "toggleFavorite"
         /\ procs[TheCaller].pc = "setItem"
         /\ ~procs'[TheCaller].wrote
         /\ procs'[TheCaller].pc # "setItem")
          => favStore' = favStore
     /\ (/\ procs[TheCaller].op = "toggleFavorite"
         /\ procs[TheCaller].pc = "catch"
         /\ ~procs[TheCaller].wrote
         /\ Finishes(TheCaller))
          => /\ last'.toast = FavFailedToast
             /\ last'.ret = "false"
             /\ ~last'.raised
             /\ favStore' = favStore]_vars

\* the step in which a direct getFavorites() or getRecentProjects() returns
GetReturns ==
  /\ procs[TheCaller].op \in {"getFavorites", "getRecentProjects"}
  /\ Finishes(TheCaller)

\* the text the returning get function read
ReadStore == IF procs[TheCaller].op = "getFavorites" THEN favStore ELSE recentStore

\* C8: getFavorites and getRecentProjects never raise; they return the empty
\* array when the key is missing, the read fails or the text is corrupt (and
\* the stored array otherwise); they never modify the store.
C8_ReadsAbsorbFailure ==
  [][GetReturns =>
       /\ ~last'.raised
       /\ (~last'.readOk \/ ReadStore.kind # "json") => last'.value = <<>>
       /\ (last'.readOk /\ ReadStore.kind = "json") => last'.value = ReadStore.val
       /\ favStore' = favStore
       /\ recentStore' = recentStore]_vars

\* getFavorites returned from a corrupt text, getRecentProjects was called
\* before it
C8_Witness ==
  /\ Idle(TheCaller)
  /\ last.op = "getFavorites"
  /\ last.readOk
  /\ favStore = Corrupt
  /\ last.value = <<>>

\* the step in which the setItem of addToRecentProjects fails
AddWriteFails ==
  /\ procs[TheCaller].op = "addToRecentProjects"
  /\ procs[TheCaller].pc = "setItem"
  /\ Finishes(TheCaller)
  /\ ~last'.wrote

\* C9: when the write inside addToRecentProjects fails, the call completes
\* without raising and without a toast, the stored recent list is unchanged,
\* and the open handler that made the call completes as after a success.
C9_RecentWriteFailureSilent ==
  [][AddWriteFails =>
       /\ ~last'.raised
       /\ last'.ret = "undefined"
       /\ last'.toast = "none"
       /\ recentStore' = recentStore
       /\ Idle(TheCaller)'
       /\ procs[TheCaller].view # "none" => last'.opened]_vars

\* Quick Switch opened a project, the write of the recent list failed and
\* the stored list, not empty, is as before
C9_Witness ==
  /\ Idle(TheCaller)
  /\ last.op = "addToRecentProjects"
  /\ last.view = "quick"
  /\ last.opened
  /\ ~last.wrote
  /\ ~last.raised
  /\ Len(StoredRecent) >= 1
  /\ StoredRecent[1].path # last.path

\* C10 as stated: no failure escapes an action handler of the three views,
\* and a failed open() always shows a failure toast.
C10_AsStated ==
  [][(Finishes(TheCaller) /\ procs[TheCaller].view # "none")
       => /\ ~last'.raised
          /\ (last'.op = "open" /\ ~last'.opened) => last'.toast \in FailureToasts]_vars

\* The projects of a list, by path
ProjectPathsOf(ps) == [i \in 1..Len(ps) |-> ps[i].path]

SortDone == calc.fn = "sortedProjects" /\ calc.done

\* C12: Quick Switch's sorted list is a permutation of the discovered
\* projects in which the projects of the recent list come first, in the
\* order of their index in the recent list, and all others follow, in
\* alphabetical order of name.
C12_RecentFirstThenByName ==
  SortDone =>
    LET d == calc.arg.discoveredProjects
        r == calc.arg.recentPathList
        out == calc.out
        rank(x) == indexOf(r, x.path) IN
    /\ Len(out) = Len(d)
    /\ Range(out) = Range(d)
    /\ \A i, j \in 1..Len(out) :
         i < j =>
           \/ rank(out[i]) # -1 /\ rank(out[j]) # -1 /\ rank(out[i]) < rank(out[j])
           \/ rank(out[i]) # -1 /\ rank(out[j]) = -1
           \/ rank(out[i]) = -1 /\ rank(out[j]) = -1
              /\ out[i].name <= out[j].name

\* recent list [B, A] and discovered {A, B, C} gave [B, A, C]
C12_Witness ==
  /\ SortDone
  /\ ProjectPathsOf(calc.arg.discoveredProjects) = <<1, 2, 3>>
  /\ \A i \in 1..3 : calc.arg.discoveredProjects[i].name = i
  /\ calc.arg.recentPathList = <<2, 1>>
  /\ ProjectPathsOf(calc.out) = <<2, 1, 3>>

FilterDone == calc.fn = "filteredProjects" /\ calc.done

\* C13: the "favorites" category of the Search view yields exactly the
\* projects whose path is among the favorites, in the order the unfiltered
\* list has them; the "all" category yields the unfiltered list.
C13_FavoritesInOrder ==
  FilterDone =>
    LET ps == calc.arg.projects
        favs == Range(calc.arg.favorites)
        out == calc.out IN
    /\ calc.arg.selectedType = "all" => out = ps
    /\ calc.arg.selectedType = "favorites" =>
         /\ Range(out) = {x \in Range(ps) : x.path \in favs}
         /\ \A i, j \in 1..Len(out) :
              i < j => indexOf(ps, out[i]) < indexOf(ps, out[j])

\* {A(fav), B, C(fav)} gave [A, C]
C13_Witness ==
  /\ FilterDone
  /\ calc.arg.selectedType = "favorites"
  /\ ProjectPathsOf(calc.arg.projects) = <<1, 2, 3>>
  /\ calc.arg.favorites = <<3, 1>>
  /\ ProjectPathsOf(calc.out) = <<1, 3>>

\* C14: the displayed path is "~" when the path is the home directory, "~"
\* and the rest when the path starts with the home directory and a
\* separator, and the path itself otherwise.
C14_AsStated ==
  (calc.fn = "formatDisplayPath" /\ calc.done) =>
    LET p == calc.arg.path
        h == calc.arg.home IN
    calc.out = IF p = h THEN <<"~">>
               ELSE IF startsWith(p, h \o <<"/">>)
                    THEN <<"~">> \o SubSeq(p, Len(h) + 1, Len(p))
                    ELSE p

\* C17: with d the whole days between the modification time and now, the
\* label is "Today" for every difference under one day, "Yesterday" for
\* d = 1, "d days ago" up to 6, "d/7 weeks ago" up to 29, "d/30 months ago"
\* up to 364 and "d/365 years ago" from 365, also for a modification time
\* later than now.
C17_AsStated ==
  (calc.fn = "formatDate" /\ calc.done) =>
    LET diff == calc.arg.now - calc.arg.date
        d == diff \div Day IN
    calc.out = IF diff < Day THEN Label(0, "Today")
               ELSE IF d = 1 THEN Label(0, "Yesterday")
               ELSE IF d <= 6 THEN Label(d, "days ago")
               ELSE IF d <= 29 THEN Label(d \div 7, "weeks ago")
               ELSE IF d <= 364 THEN Label(d \div 30, "months ago")
               ELSE Label(d \div 365, "years ago")

\* C15: when an open action of any of the three views has opened the
\* project and its handler is done, the project's path is the first entry
\* of the stored recent list.
C15_AsStated ==
  [][(Finishes(TheCaller) /\ last'.opened) =>
       /\ recentStore'.kind = "json"
       /\ StoredRecent' # <<>>
       /\ Head(StoredRecent').path = last'.path]_vars

\* the caller whose setItem succeeded last, and first, in the race on op
LastWriter(op) == hist.order[op][Len(hist.order[op])]
FirstWriter(op) == hist.order[op][1]

AllWrote(op) == hist.raced[op] /\ Len(hist.order[op]) = NumCallers

\* C18: when concurrent toggleFavorite calls on different paths have all
\* read the stored favorites before any of them wrote, and all have written,
\* the stored favorites are the original ones with the toggle of the last
\* writer alone; likewise the stored recent list of concurrent
\* addToRecentProjects calls holds the path of the last writer alone.
C18_LastWriterWins ==
  /\ AllWrote("toggleFavorite") =>
       LET p == hist.arg["toggleFavorite"][LastWriter("toggleFavorite")] IN
       Members(favStore) = (hist.fav0 \ {p}) \cup ({p} \ hist.fav0)
  /\ AllWrote("addToRecentProjects") =>
       LET p == hist.arg["addToRecentProjects"][LastWriter("addToRecentProjects")] IN
       pathsOf(StoredRecent) = pathsOf(trimmed(hist.recent0, p, 0))

\* both races were run, every call reported success, and the toggle and the
\* recent entry of the first writers are not in the store
C18_Witness ==
  /\ \A op \in RaceOps : AllWrote(op) /\ \A c \in Callers : hist.ok[op][c]
  /\ LET p == hist.arg["toggleFavorite"][FirstWriter("toggleFavorite")] IN
     (p \in Members(favStore)) = (p \in hist.fav0)
  /\ LET p == hist.arg["addToRecentProjects"][FirstWriter("addToRecentProjects")] IN
     ~includes(pathsOf(StoredRecent), p)

\* the views whose loadProjects is in this code
LoadingViews == {"quick", "search"}

\* C11: when the load whose discovery call failed returns, the failure toast
\* has been shown, the project list is empty, isLoading is false and the
\* empty-state view is rendered.
C11_AsStated ==
  [][\A i \in LoadIds :
       (/\ ui.kind \in LoadingViews
        /\ ui.loads[i].failed = "discover"
        /\ ui'.loads[i].pc = "done") =>
         /\ hist'.toasts = hist.toasts + 1
         /\ ui'.projects = <<>>
         /\ ~ui'.isLoading
         /\ EmptyView(ui')]_vars

\* C16: in List Projects every item whose path is a stored favorite stands
\* before every item whose path is none.
C16_AsStated ==
  ui.kind = "list" =>
    \A i, j \in 1..Len(Items(ui)) :
      (/\ Items(ui)[i].path \notin Members(favStore)
       /\ Items(ui)[j].path \in Members(favStore)) => j < i

\* C19 as stated, for loads that all called setProjects: when loads have
\* overlapped and none is in flight any more, the displayed list is the
\* result that arrived last (the empty list if it was a failure).
C19_AsStated ==
  (/\ ui.kind \in LoadingViews
   /\ InFlight(ui) = {}
   /\ hist.overlap
   /\ ~hist.unset
   /\ hist.arrived.id # 0) =>
    Range(ProjectPathsOf(ui.projects)) = hist.arrived.paths

\* C19: every setProjects of a load replaces the displayed list, whichever
\* request the load belongs to: the displayed list is the value of the
\* setProjects called last.
C19_LastSetProjectsWins ==
  (ui.kind \in LoadingViews /\ hist.lastSet.id # 0) =>
    ui.projects = hist.lastSet.projects

\* all loads have returned and the list on display is the one of an earlier
\* request, which differs from the one a later request had displayed
C19_Witness ==
  /\ ui.kind \in LoadingViews
  /\ InFlight(ui) = {}
  /\ hist.overlap
  /\ hist.stale
  /\ hist.lastSet.id < hist.newest.id
  /\ ui.projects = hist.lastSet.projects
  /\ ui.projects # hist.newest.projects

\* C20: in Quick Switch and Search, isLoading is true while a call of
\* loadProjects is in flight.
C20_AsStated ==
  (ui.kind \in LoadingViews /\ InFlight(ui) # {}) => ui.isLoading

\* the "Recent #k" tag of a displayed project: recentPaths.indexOf(path) + 1,
\* and 0 for a project without the tag
RecentTag(u, project) ==
  IF includes(u.recentPaths, project.path)
  THEN indexOf(u.recentPaths, project.path) + 1 ELSE 0

\* C21: in the Quick Switch view, whenever isLoading is false, every
\* displayed project whose path is in recentPaths precedes every one whose
\* path is not, and the "Recent #k" tags increase down the list, after any
\* interleaving of loads, refreshes and open actions.
C21_AsStated ==
  (ui.kind = "quick" /\ ~ui.isLoading) =>
    \A i, j \in 1..Len(Items(ui)) :
      i < j =>
        LET ti == RecentTag(ui, Items(ui)[i])
            tj == RecentTag(ui, Items(ui)[j]) IN
        /\ tj # 0 => ti # 0
        /\ (ti # 0 /\ tj # 0) => ti < tj
====
